---- MODULE Spec2Model ----
(***************************************************************************)
(* A model of scripts/mediapipe_service.py: the hand detection worker that *)
(* reads length-prefixed frames from standard input and prints one JSON    *)
(* line per frame on standard output.                                      *)
(*                                                                         *)
(* The worker is one sequential process; its blocking points are the       *)
(* steps of the model.  The producer at the other end of the input pipe    *)
(* and the two libraries the worker calls (the image decoder and the hand  *)
(* detector) are the environment.                                          *)
(***************************************************************************)
EXTENDS Integers, Sequences, FiniteSets

\* ------------------------------------------------------------------ bounds
\* The producer writes at most MaxStreamLen bytes before it closes the pipe.
MaxStreamLen == 10

\* The longest payload of the payload sequences the framing claims range over.
MaxPayloadLen == 2

\* The byte values the producer writes.  They give the length prefixes 0, 1
\* and 2 (and, in the higher prefix bytes, lengths beyond the stream), and
\* payload bytes that tell two frames apart.
Byte == {0, 1, 2}

\* --------------------------------------------------------------- constants
\* score = 0.9, in hundredths.
DefaultScore == 90

\* The exit status of an interpreter that ends on sys.exit(1) or on an
\* uncaught exception, and of one that runs off the end of the script;
\* Running stands for a process that has not exited.
Running == "running"
ExitOk == "0"
ExitFailure == "1"

VARIABLES
    model_exists,      \* os.path.exists(MODEL_PATH), fixed by the installation
    pc,                \* the worker's position in the script
    detector,          \* the detector main() created, or NoDetector
    stdin,             \* every byte the producer has written to the pipe
    closed,            \* the producer has closed its end of the pipe
    pos,               \* the number of bytes of stdin the worker has consumed
    length_bytes,      \* main()'s locals
    length,
    jpeg_data,
    image_bgr,
    detection_result,
    stdout_buffer,     \* lines written to sys.stdout and not flushed yet
    stdout,            \* lines that reached the consumer's end of the pipe
    stderr,            \* what was reported on the error stream
    exit_status,       \* Running, or the status the process exited with
    frames,            \* history: the payloads of the frames fully read
    processed,         \* history: per frame handed to the decoder, what the
                       \* decoder and the detector did with it
    detected           \* history: the images handed to detector.detect

vars == <<model_exists, pc, detector, stdin, closed, pos, length_bytes, length,
          jpeg_data, image_bgr, detection_result, stdout_buffer, stdout,
          stderr, exit_status, frames, processed, detected>>

env_vars == <<model_exists, stdin, closed>>
locals == <<length_bytes, length, jpeg_data, image_bgr, detection_result>>
out_vars == <<stdout_buffer, stdout, stderr>>
hist_vars == <<frames, processed, detected>>

\* ------------------------------------------------------ values of the model
\* What the error stream can hold: the message of line 28, and the traceback
\* of an exception raised by cv2.imdecode or by detector.detect.
ModelNotFound == "Error: Model file not found"
DecodeError == "Traceback: cv2.error"
DetectError == "Traceback: detector.detect"

None == [kind |-> "None"]

\* The detector before main() has created it.
NoDetector == [kind |-> "no detector"]

\* What cv2.imdecode returns for bytes that hold an image: the pixels, which
\* are a function of the bytes, in BGR channel order.
Image(data) == [kind |-> "image", channels |-> "BGR", of |-> data]

\* cv2.cvtColor(image_bgr, cv2.COLOR_BGR2RGB) and mp.Image(SRGB, data):
\* the same pixels, the channels reordered.
cvtColor(img) == [img EXCEPT !.channels = "RGB"]

Landmark(x, y, z) == [x |-> x, y |-> y, z |-> z]
Category(name, score) == [category_name |-> name, score |-> score]

HandA == <<Landmark(1, 2, 3), Landmark(4, 5, 6)>>
HandB == <<Landmark(7, 8, 9), Landmark(1, 1, 1)>>

\* The results detector.detect may return: no hand; a hand without a
\* classification; a classified hand; two hands of which one is classified;
\* two classified hands.  Each classification holds one category, as the
\* detector always gives.
DetectionResults ==
    { [hand_landmarks |-> <<>>, handedness |-> <<>>],
      [hand_landmarks |-> <<HandA>>, handedness |-> <<>>],
      [hand_landmarks |-> <<HandA>>,
       handedness |-> << <<Category("Left", 80)>> >>],
      [hand_landmarks |-> <<HandA, HandB>>,
       handedness |-> << <<Category("Left", 80)>> >>],
      [hand_landmarks |-> <<HandB, HandA>>,
       handedness |-> << <<Category("Right", 100)>>, <<Category("Left", 50)>> >>] }

\* ------------------------------------------------------------ pure helpers
\* A 32-bit unsigned integer, held as its two 16-bit halves: the value is
\* hi * 65536 + lo, which is beyond the integers TLC computes with.
U32(hi, lo) == [hi |-> hi, lo |-> lo]

\* k < n and n <= k, for a count k of bytes at hand and a U32 n.
Shorter(k, n) == n.hi > 0 \/ k < n.lo
AtMost(n, k) == ~Shorter(k, n)

\* struct.unpack('>i', length_bytes)[0]: the prefix taken for a signed
\* integer, negative when its top bit is set.
unpack_Signed(b) ==
    U32(IF b[1] >= 128 THEN b[1] * 256 + b[2] - 65536 ELSE b[1] * 256 + b[2],
        b[3] * 256 + b[4])

\* struct.unpack('>I', length_bytes)[0]
unpack(b) == U32(b[1] * 256 + b[2], b[3] * 256 + b[4])

\* A read that does not wait, as os.read or read1 on the pipe: it returns at
\* once with the bytes that are there, however few.
CanRead_NoWait(n) == TRUE

\* sys.stdin.buffer.read(n) blocks until n bytes are there or the pipe is
\* closed; it then returns the n next bytes, or what is left of the stream.
CanRead(n) == closed \/ AtMost(n, Len(stdin) - pos)

Min(a, b) == IF a < b THEN a ELSE b

read(n) ==
    SubSeq(stdin, pos + 1,
           IF n.hi > 0 THEN Len(stdin) ELSE Min(pos + n.lo, Len(stdin)))

\* The outcomes of cv2.imdecode(np.frombuffer(data, np.uint8), IMREAD_COLOR):
\* an empty buffer fails imdecode's assertion !buf.empty() and raises
\* cv2.error; other bytes give the image they encode, or None.
imdecode(data) ==
    IF data = <<>> THEN {[kind |-> "raise", exc |-> DecodeError]} ELSE {None, Image(data)}

\* The outcomes of detector.detect(mp_image): a result, or an exception.
detect(mp_image) ==
    {[kind |-> "result", value |-> r] : r \in DetectionResults}
        \cup {[kind |-> "raise", exc |-> DetectError]}

\* Lines 81-101 with other defaults at lines 81-82: handedness = "Unknown"
\* and score = 90, a percentage.
FormatHand_OtherDefaults(result, i) ==
    LET classified == result.handedness # <<>> /\ i - 1 < Len(result.handedness)
        handedness_info == result.handedness[i][1]
    IN  [points |-> [k \in 1..Len(result.hand_landmarks[i]) |->
                        [x |-> result.hand_landmarks[i][k].x,
                         y |-> result.hand_landmarks[i][k].y,
                         z |-> result.hand_landmarks[i][k].z]],
         handedness |-> IF classified THEN handedness_info.category_name
                        ELSE "Unknown",
         score |-> IF classified THEN handedness_info.score
                   ELSE 100 * DefaultScore]

\* Lines 81-101 with handedness[0][0] for handedness[i][0], and without the
\* test of i: every hand takes the first classification, when there is one.
FormatHand_FirstClassification(result, i) ==
    LET classified == result.handedness # <<>>
        handedness_info == result.handedness[1][1]
    IN  [points |-> [k \in 1..Len(result.hand_landmarks[i]) |->
                        [x |-> result.hand_landmarks[i][k].x,
                         y |-> result.hand_landmarks[i][k].y,
                         z |-> result.hand_landmarks[i][k].z]],
         handedness |-> IF classified THEN handedness_info.category_name
                        ELSE "Right",
         score |-> IF classified THEN handedness_info.score ELSE DefaultScore]

\* Lines 81-101, for the hand at (1-based) index i of the detector's result.
FormatHand(result, i) ==
    LET classified == result.handedness # <<>> /\ i - 1 < Len(result.handedness)
        handedness_info == result.handedness[i][1]
    IN  [points |-> [k \in 1..Len(result.hand_landmarks[i]) |->
                        [x |-> result.hand_landmarks[i][k].x,
                         y |-> result.hand_landmarks[i][k].y,
                         z |-> result.hand_landmarks[i][k].z]],
         handedness |-> IF classified THEN handedness_info.category_name
                        ELSE "Right",
         score |-> IF classified THEN handedness_info.score ELSE DefaultScore]

\* Lines 77-101 with output["hands"].insert(0, ...) for append: the hands
\* come out in reverse order.
Format_Reversed(result) ==
    [hands |-> IF result.hand_landmarks # <<>>
               THEN [i \in 1..Len(result.hand_landmarks) |->
                        FormatHand(result, Len(result.hand_landmarks) + 1 - i)]
               ELSE <<>>]

\* Lines 77-101: the output dict built from a detection result.
Format(result) ==
    [hands |-> IF result.hand_landmarks # <<>>
               THEN [i \in 1..Len(result.hand_landmarks) |-> FormatHand(result, i)]
               ELSE <<>>]

EmptyHands == [hands |-> <<>>]

\* --------------------------------------------------------------- the state
Init ==
    /\ model_exists \in BOOLEAN
    /\ pc = "startup"
    /\ detector = NoDetector
    /\ stdin = <<>>
    /\ closed = FALSE
    /\ pos = 0
    /\ length_bytes = <<>>
    /\ length = U32(0, 0)
    /\ jpeg_data = <<>>
    /\ image_bgr = None
    /\ detection_result = [hand_landmarks |-> <<>>, handedness |-> <<>>]
    /\ stdout_buffer = <<>>
    /\ stdout = <<>>
    /\ stderr = <<>>
    /\ exit_status = Running
    /\ frames = <<>>
    /\ processed = <<>>
    /\ detected = <<>>

\* ------------------------------------------------------------- the producer
\* The process at the other end of the input pipe writes one more byte.
\* A pipe whose reader has exited takes no more bytes.
Write(b) ==
    /\ pc # "exited"
    /\ ~closed
    /\ Len(stdin) < MaxStreamLen
    /\ stdin' = Append(stdin, b)
    /\ UNCHANGED <<model_exists, pc, detector, closed, pos, locals, out_vars,
                   exit_status, hist_vars>>

\* The producer closes its end of the pipe.
Close ==
    /\ ~closed
    /\ closed' = TRUE
    /\ UNCHANGED <<model_exists, pc, detector, stdin, pos, locals, out_vars,
                   exit_status, hist_vars>>

\* --------------------------------------------------------------- the worker
\* print(json.dumps(line)), without flush=True: the line stays in the buffer
\* of sys.stdout, which a pipe makes block-buffered.
print_NoFlush(line) ==
    /\ stdout_buffer' = Append(stdout_buffer, line)
    /\ stdout' = stdout

\* print(json.dumps(line), flush=True): the line is written to sys.stdout
\* and the buffer is flushed to the pipe.
print(line) ==
    /\ stdout' = stdout \o stdout_buffer \o <<line>>
    /\ stdout_buffer' = <<>>

\* The interpreter exits: what is left in sys.stdout's buffer is flushed.
Exit(status) ==
    /\ pc' = "exited"
    /\ exit_status' = status
    /\ stdout' = stdout \o stdout_buffer
    /\ stdout_buffer' = <<>>

\* The exception caught by a try/except around the loop body that prints the
\* empty record and goes on with the next frame.
Raise_Absorbed(exc) ==
    /\ print(EmptyHands)
    /\ pc' = "read_length"
    /\ UNCHANGED <<stderr, exit_status>>

\* An exception nothing in the script catches: the traceback, which names
\* the exception, goes to the error stream and the interpreter exits with
\* status 1.
Raise(exc) ==
    /\ stderr' = Append(stderr, exc)
    /\ Exit(ExitFailure)

\* Lines 63-65 without line 64: the frame is skipped and nothing is printed.
OnDecodeFailure_NoRecord ==
    /\ pc' = "read_length"
    /\ UNCHANGED <<stdout, stdout_buffer>>

\* Lines 63-65 printing an output kept from the frame before: the record
\* written last is written again, and {"hands": []} only when there is none.
OnDecodeFailure_RepeatsLast ==
    /\ print(IF stdout = <<>> THEN EmptyHands ELSE stdout[Len(stdout)])
    /\ pc' = "read_length"

\* Lines 63-65: the decoder returned None.
OnDecodeFailure ==
    /\ print(EmptyHands)
    /\ pc' = "read_length"

\* Lines 27-29 without line 29: the error is reported and the script goes on.
CheckModel_NoExit ==
    /\ pc = "startup"
    /\ IF ~model_exists
       THEN /\ stderr' = Append(stderr, ModelNotFound)
            /\ UNCHANGED <<stdout, stdout_buffer, exit_status>>
       ELSE UNCHANGED <<out_vars, exit_status>>
    /\ pc' = "create_detector"
    /\ UNCHANGED <<env_vars, detector, pos, locals, hist_vars>>

\* Lines 27-29, run when the script is loaded, before main().
CheckModel ==
    /\ pc = "startup"
    /\ IF ~model_exists
       THEN /\ stderr' = Append(stderr, ModelNotFound)
            /\ Exit(ExitFailure)
       ELSE /\ pc' = "create_detector"
            /\ UNCHANGED <<out_vars, exit_status>>
    /\ UNCHANGED <<env_vars, detector, pos, locals, hist_vars>>

\* Lines 33-44.
CreateDetector ==
    /\ pc = "create_detector"
    /\ detector' = [model_asset_path |-> "hand_landmarker.task",
                    num_hands |-> 2,
                    min_hand_detection_confidence |-> 50,
                    min_hand_presence_confidence |-> 50,
                    min_tracking_confidence |-> 50,
                    running_mode |-> "IMAGE"]
    /\ pc' = "read_length"
    /\ UNCHANGED <<env_vars, pos, locals, out_vars, exit_status, hist_vars>>

\* Lines 48-52.
ReadLength ==
    /\ pc = "read_length"
    /\ CanRead(U32(0, 4))
    /\ length_bytes' = read(U32(0, 4))
    /\ pos' = pos + Len(length_bytes')
    /\ IF Len(length_bytes') < 4
       THEN /\ Exit(ExitOk)
            /\ UNCHANGED <<length, stderr>>
       ELSE /\ length' = unpack(length_bytes')
            /\ pc' = "read_payload"
            /\ UNCHANGED <<out_vars, exit_status>>
    /\ UNCHANGED <<env_vars, detector, jpeg_data, image_bgr, detection_result,
                   hist_vars>>

\* Lines 55-57 without the test of line 56: whatever was read is a frame.
ReadPayload_NoLengthCheck ==
    /\ pc = "read_payload"
    /\ CanRead(length)
    /\ jpeg_data' = read(length)
    /\ pos' = pos + Len(jpeg_data')
    /\ pc' = "decode"
    /\ frames' = Append(frames, jpeg_data')
    /\ UNCHANGED <<out_vars, exit_status>>
    /\ UNCHANGED <<env_vars, detector, length_bytes, length, image_bgr,
                   detection_result, processed, detected>>

\* Lines 55-57.
\* Lines 55-57 through a reader that takes everything the stream holds into
\* a buffer of its own and hands out the payload from it.
ReadPayload_ReadsAhead ==
    /\ pc = "read_payload"
    /\ CanRead(length)
    /\ jpeg_data' = read(length)
    /\ IF Shorter(Len(jpeg_data'), length)
       THEN /\ pos' = pos + Len(jpeg_data')
            /\ Exit(ExitOk)
            /\ UNCHANGED <<stderr, frames>>
       ELSE /\ pos' = Len(stdin)
            /\ pc' = "decode"
            /\ frames' = Append(frames, jpeg_data')
            /\ UNCHANGED <<out_vars, exit_status>>
    /\ UNCHANGED <<env_vars, detector, length_bytes, length, image_bgr,
                   detection_result, processed, detected>>

ReadPayload ==
    /\ pc = "read_payload"
    /\ CanRead(length)
    /\ jpeg_data' = read(length)
    /\ pos' = pos + Len(jpeg_data')
    /\ IF Shorter(Len(jpeg_data'), length)
       THEN /\ Exit(ExitOk)
            /\ UNCHANGED <<stderr, frames>>
       ELSE /\ pc' = "decode"
            /\ frames' = Append(frames, jpeg_data')
            /\ UNCHANGED <<out_vars, exit_status>>
    /\ UNCHANGED <<env_vars, detector, length_bytes, length, image_bgr,
                   detection_result, processed, detected>>

\* Lines 60-65 with the detector called before the test of line 63, on
\* whatever the decoder returned.
Decode_DetectsFirst ==
    /\ pc = "decode"
    /\ \E r \in imdecode(jpeg_data) :
        CASE r.kind = "raise" ->
                /\ Raise(r.exc)
                /\ UNCHANGED <<image_bgr, processed, detected>>
          [] r.kind = "None" ->
                /\ image_bgr' = r
                /\ detected' = Append(detected, r)
                /\ OnDecodeFailure
                /\ processed' = Append(processed,
                        [frame |-> jpeg_data, decoded |-> FALSE, detection |-> <<>>])
                /\ UNCHANGED <<stderr, exit_status>>
          [] r.kind = "image" ->
                /\ image_bgr' = r
                /\ pc' = "detect"
                /\ UNCHANGED <<out_vars, exit_status, processed, detected>>
    /\ UNCHANGED <<env_vars, detector, pos, length_bytes, length, jpeg_data,
                   detection_result, frames>>

\* Lines 60-65.
Decode ==
    /\ pc = "decode"
    /\ \E r \in imdecode(jpeg_data) :
        CASE r.kind = "raise" ->
                /\ Raise(r.exc)
                /\ UNCHANGED <<image_bgr, processed>>
          [] r.kind = "None" ->
                /\ image_bgr' = r
                /\ OnDecodeFailure
                /\ processed' = Append(processed,
                        [frame |-> jpeg_data, decoded |-> FALSE, detection |-> <<>>])
                /\ UNCHANGED <<stderr, exit_status>>
          [] r.kind = "image" ->
                /\ image_bgr' = r
                /\ pc' = "detect"
                /\ UNCHANGED <<out_vars, exit_status, processed>>
    /\ UNCHANGED <<env_vars, detector, pos, length_bytes, length, jpeg_data,
                   detection_result, frames, detected>>

\* Lines 68-74.
Detect ==
    /\ pc = "detect"
    /\ detected' = Append(detected, cvtColor(image_bgr))
    /\ \E r \in detect(cvtColor(image_bgr)) :
        CASE r.kind = "raise" ->
                /\ Raise(r.exc)
                /\ UNCHANGED <<detection_result, processed>>
          [] r.kind = "result" ->
                /\ detection_result' = r.value
                /\ pc' = "format"
                /\ processed' = Append(processed,
                        [frame |-> jpeg_data, decoded |-> TRUE,
                         detection |-> <<r.value>>])
                /\ UNCHANGED <<out_vars, exit_status>>
    /\ UNCHANGED <<env_vars, detector, pos, length_bytes, length, jpeg_data,
                   image_bgr, frames>>

\* Lines 77-103 with line 77 moved before the loop: the hands of the earlier
\* frames stay in output, and each frame adds its own.
FormatAndPrint_OutputNotReset ==
    /\ pc = "format"
    /\ LET nonempty == {i \in 1..Len(stdout) : stdout[i].hands # <<>>}
           kept == IF nonempty = {} THEN <<>>
                   ELSE stdout[CHOOSE i \in nonempty :
                                  \A j \in nonempty : j <= i].hands
       IN  print([hands |-> kept \o Format(detection_result).hands])
    /\ pc' = "read_length"
    /\ UNCHANGED <<env_vars, detector, pos, locals, stderr, exit_status,
                   hist_vars>>

\* Lines 77-103 with line 103 indented into the if of line 79: a result
\* without hands prints nothing.
FormatAndPrint_PrintInsideIf ==
    /\ pc = "format"
    /\ IF detection_result.hand_landmarks # <<>>
       THEN print(Format(detection_result))
       ELSE UNCHANGED <<stdout, stdout_buffer>>
    /\ pc' = "read_length"
    /\ UNCHANGED <<env_vars, detector, pos, locals, stderr, exit_status,
                   hist_vars>>

\* Lines 77-103.
FormatAndPrint ==
    /\ pc = "format"
    /\ print(Format(detection_result))
    /\ pc' = "read_length"
    /\ UNCHANGED <<env_vars, detector, pos, locals, stderr, exit_status,
                   hist_vars>>

Next ==
    \/ \E b \in Byte : Write(b)
    \/ Close
    \/ CheckModel
    \/ CreateDetector
    \/ ReadLength
    \/ ReadPayload
    \/ Decode
    \/ Detect
    \/ FormatAndPrint

Spec == Init /\ [][Next]_vars

\* ================================================================== claims
AboutToReadLength == pc = "read_length"
Exited == pc = "exited"
ExitedOk == pc = "exited" /\ exit_status = ExitOk
\* The process ended on an exception raised inside the loop.
Crashed ==
    pc = "exited" /\ exit_status = ExitFailure /\ detector # NoDetector

Range(seq) == {seq[i] : i \in 1..Len(seq)}

\* ---------------------------------------------------------------------- C1
\* C1, as stated: whenever the loop is about to read a length prefix or the
\* process has terminated, as many records were written as frames were
\* fully read, whatever the decoder and the detector do.
C1_RecordsEqualFramesAlways ==
    (AboutToReadLength \/ Exited) => Len(stdout) = Len(frames)

\* C1, amended: whenever the loop is about to read a length prefix or the
\* process has exited with status 0, as many records were written as frames
\* were fully read; when the process ended on an exception raised by the
\* decoder or the detector, the frame it was processing, and only that one,
\* is without its record.
C1_RecordsEqualFrames ==
    /\ (AboutToReadLength \/ ExitedOk) => Len(stdout) = Len(frames)
    /\ Crashed => Len(stdout) = Len(frames) - 1
    /\ stdout_buffer = <<>>

\* Two frames were fully read, one of them undecodable, and the stream ended.
C1_Witness ==
    /\ ExitedOk
    /\ Len(frames) = 2
    /\ \E i \in 1..Len(processed) : ~processed[i].decoded

\* ---------------------------------------------------------------------- C2
\* What a producer writes for one frame: struct.pack('>I', len(p)) and p.
pack(n) ==
    <<(n \div 16777216) % 256, (n \div 65536) % 256, (n \div 256) % 256, n % 256>>

RECURSIVE Encode(_)
Encode(ps) ==
    IF ps = <<>> THEN <<>>
    ELSE pack(Len(Head(ps))) \o Head(ps) \o Encode(Tail(ps))

Payloads == UNION {[1..n -> Byte] : n \in 0..MaxPayloadLen}
PayloadSeqs == UNION {[1..n -> Payloads] : n \in 0..(MaxStreamLen \div 4)}

\* C2, as stated: when the stream was the encoding of the payloads P1..Pn
\* (empty ones included) followed by end-of-stream, and the process is over,
\* the read loop has surfaced exactly P1..Pn, in order, to the processing
\* step.
C2_FramingRoundTrip ==
    (Exited /\ closed /\ detector # NoDetector) =>
        \A ps \in PayloadSeqs : stdin = Encode(ps) => frames = ps

\* ---------------------------------------------------------------------- C3
\* The bytes of the stream the worker has not consumed.
Unread == Len(stdin) - pos

\* The read of a length prefix returns with 1 to 3 bytes, the stream's last.
EndsMidPrefix ==
    pc = "read_length" /\ pc' # "read_length" /\ Unread \in 1..3

\* The read of a payload returns with fewer bytes than the prefix declared.
EndsMidPayload ==
    pc = "read_payload" /\ pc' # "read_payload" /\ Shorter(Unread, length)

\* C3: when the stream ends inside a length prefix or inside a payload, the
\* loop ends without an error (exit status 0, nothing on the error stream),
\* the remainder is handed neither to the decoder nor to the detector, and
\* no record is written for it, then or later.
C3_TruncationEndsCleanly ==
    /\ [][(EndsMidPrefix \/ EndsMidPayload) =>
            /\ pc' = "exited" /\ exit_status' = ExitOk /\ stderr' = stderr
            /\ frames' = frames /\ processed' = processed
            /\ stdout' = stdout /\ stdout_buffer' = stdout_buffer]_vars
    /\ [][Exited =>
            /\ pc' = "exited" /\ exit_status' = exit_status
            /\ frames' = frames /\ processed' = processed
            /\ stdout' = stdout /\ stdout_buffer' = stdout_buffer]_vars

\* A frame was read and answered, and the stream then ended inside the
\* payload of the next frame, some of whose bytes had arrived.
C3_Witness ==
    /\ ExitedOk
    /\ Len(frames) = 1 /\ Len(stdout) = 1
    /\ Len(length_bytes) = 4
    /\ jpeg_data # <<>> /\ Shorter(Len(jpeg_data), length)
    /\ pos = Len(stdin)

\* The stream ended inside a length prefix.
C3_WitnessMidPrefix ==
    /\ ExitedOk
    /\ Len(frames) = 1 /\ Len(stdout) = 1
    /\ Len(length_bytes) \in 1..3

\* ---------------------------------------------------------------------- C4
Last(seq) == seq[Len(seq)]

\* In this step the decoder returned None for the frame just read.
DecoderReturnsNone ==
    Len(processed') > Len(processed) /\ ~Last(processed').decoded

\* C4: when the decoder returns no image for a fully read frame, the record
\* {"hands": []} is written and flushed for it and the loop goes on to read
\* the next frame; when the stream was one such frame and then ended, the
\* process is over with exactly that one line written and exit status 0.
C4_DecodeFailureFallback ==
    /\ [][DecoderReturnsNone =>
            /\ stdout' = Append(stdout, EmptyHands)
            /\ stdout_buffer' = <<>>
            /\ pc' = "read_length"
            /\ exit_status' = Running]_vars
    /\ [](( /\ Exited
             /\ Len(frames) = 1 /\ stdin = Encode(frames)
             /\ Len(processed) = 1 /\ ~processed[1].decoded )
            => (stdout = <<EmptyHands>> /\ exit_status = ExitOk))

\* The stream was one frame, which the decoder took for no image,
\* and the process is over.
C4_Witness ==
    /\ Exited
    /\ Len(frames) = 1 /\ stdin = Encode(frames)
    /\ Len(processed) = 1 /\ ~processed[1].decoded
    /\ stdout = <<EmptyHands>>

\* ---------------------------------------------------------------------- C5
\* In this step the decoder was called and gave no image: the worker leaves
\* the decode step, and not for the detector.
DecodeFails ==
    pc = "decode" /\ pc' # "decode" /\ pc' # "detect"

\* C5, as stated: however the decoder reports that a fully read frame is no
\* image (None, or an exception, as for a zero-length payload), the
\* empty-hands record is written for the frame, the process does not
\* terminate and the loop goes on to read the next frame.
C5_DecodeFailureAbsorbed ==
    [][DecodeFails =>
        /\ stdout' = Append(stdout, EmptyHands)
        /\ pc' = "read_length"
        /\ exit_status' = Running]_vars

\* ---------------------------------------------------------------------- C6
\* The record the code is to print for a frame, given what the decoder and
\* the detector returned for it.
RecordOf(e) == IF e.decoded THEN Format(e.detection[1]) ELSE EmptyHands

\* C6: the i-th line written is the record computed from the i-th frame
\* read: the i-th decoder or detector outcome is the one of the i-th frame,
\* the i-th line is the record of that outcome, and no line is written
\* beyond the frames processed (none is duplicated).
C6_Ordering ==
    /\ Len(stdout) <= Len(processed)
    /\ Len(processed) <= Len(frames)
    /\ \A i \in 1..Len(processed) : processed[i].frame = frames[i]
    /\ \A i \in 1..Len(stdout) : stdout[i] = RecordOf(processed[i])

\* Two frames with different payloads were answered with different records,
\* the first of them with hands.
C6_Witness ==
    /\ Len(frames) = 2 /\ frames[1] # frames[2]
    /\ Len(stdout) = 2 /\ stdout[1] # stdout[2]
    /\ stdout[1].hands # <<>>

\* ---------------------------------------------------------------------- C7
Reading == pc \in {"read_length", "read_payload"}

\* The order of the script's steps.
StepOrder ==
    { <<"startup", "create_detector">>, <<"startup", "exited">>,
      <<"create_detector", "read_length">>,
      <<"read_length", "read_payload">>, <<"read_length", "exited">>,
      <<"read_payload", "decode">>, <<"read_payload", "exited">>,
      <<"decode", "detect">>, <<"decode", "read_length">>, <<"decode", "exited">>,
      <<"detect", "format">>, <<"detect", "exited">>,
      <<"format", "read_length">> }

\* C7: while the worker asks the input stream for bytes (of a prefix or of a
\* payload), the record of every frame read before is written and flushed;
\* bytes are taken from the stream in the read steps only; a frame is
\* decoded or detected after it was read and before its record is written;
\* a record is written, and flushed at once, after its frame was decoded or
\* detected; and the steps follow one another in the script's order.
C7_StrictSequencing ==
    /\ [](Reading => (stdout_buffer = <<>> /\ Len(stdout) = Len(frames)))
    /\ [][pos' # pos => Reading]_vars
    /\ [][Len(processed') > Len(processed) =>
            /\ Len(processed') = Len(frames)
            /\ Len(stdout) = Len(frames) - 1]_vars
    /\ [][stdout' # stdout =>
            /\ stdout_buffer' = <<>>
            /\ Len(stdout') = Len(stdout) + 1
            /\ Len(stdout') = Len(processed')]_vars
    /\ [][pc' # pc => <<pc, pc'>> \in StepOrder]_vars

\* The worker asks for the payload of the second frame, and the record of
\* the first, which went through the detector, has reached the consumer.
C7_Witness ==
    /\ pc = "read_payload"
    /\ Len(frames) = 1 /\ processed[1].decoded
    /\ stdout = <<RecordOf(processed[1])>>
    /\ stdout_buffer = <<>>

\* ---------------------------------------------------------------------- C8
\* C8, as stated, for its final result: when the process is over after a
\* loop in which every detector call returned, it has exited with status 0.
C8_CleanTermination ==
    (Exited /\ detector # NoDetector /\ DetectError \notin Range(stderr))
        => exit_status = ExitOk

\* ---------------------------------------------------------------------- C9
\* In this step the detector was called and returned no result: it raised.
DetectorRaises ==
    pc = "detect" /\ pc' # "detect" /\ Len(processed') = Len(processed)

\* C9: when the detector call for a frame raises, the process terminates
\* with a non-zero status and the exception reported on the error stream,
\* no record is written for the frame, and from then on no byte of input is
\* read and nothing more is written.
C9_DetectorFailFast ==
    /\ [][DetectorRaises =>
            /\ pc' = "exited" /\ exit_status' = ExitFailure
            /\ stderr' = Append(stderr, DetectError)
            /\ stdout' = stdout /\ stdout_buffer' = stdout_buffer
            /\ pos' = pos]_vars
    /\ [][(Exited /\ DetectError \in Range(stderr)) =>
            /\ pc' = "exited" /\ exit_status' = ExitFailure
            /\ stdout' = stdout /\ stdout_buffer' = stdout_buffer
            /\ pos' = pos]_vars

\* The detector raised on a frame while a whole next frame was waiting in
\* the pipe.
C9_Witness ==
    /\ Exited /\ exit_status = ExitFailure
    /\ stderr = <<DetectError>>
    /\ Len(frames) = 1 /\ stdout = <<>>
    /\ Unread >= 5

\* --------------------------------------------------------------------- C10
\* C10: when the model asset is missing, the process reports it on the
\* error stream and exits with a non-zero status, and at no time has it read
\* a byte of input, created the detector or written a record.
C10_StartupFailure ==
    ~model_exists =>
        /\ pc \in {"startup", "exited"}
        /\ pos = 0 /\ frames = <<>>
        /\ detector = NoDetector
        /\ stdout = <<>> /\ stdout_buffer = <<>>
        /\ Exited => (exit_status = ExitFailure /\ stderr = <<ModelNotFound>>)
        /\ ~Exited => (exit_status = Running /\ stderr = <<>>)

\* The model asset is missing, the process is over, and a whole frame was
\* waiting in the pipe.
C10_Witness ==
    /\ ~model_exists
    /\ Exited
    /\ Len(stdin) >= 5 /\ closed

\* --------------------------------------------------------------------- C11
\* The lines written for frames that went through the detector.
DetectedLines == {i \in 1..Len(stdout) : processed[i].decoded}

\* What the detector returned for the frame of line i.
ResultOf(i) == processed[i].detection[1]

\* C11: in every line written for a detected frame, the hand at index j
\* carries the label and the score of the detector's j-th classification
\* when the detector gave one for index j, and "Right" and 0.9 otherwise
\* (so for every hand when the detector classified none).
C11_FieldDefaults ==
    \A i \in DetectedLines :
        \A j \in 1..Len(stdout[i].hands) :
            IF j <= Len(ResultOf(i).handedness)
            THEN /\ stdout[i].hands[j].handedness
                        = ResultOf(i).handedness[j][1].category_name
                 /\ stdout[i].hands[j].score
                        = ResultOf(i).handedness[j][1].score
            ELSE /\ stdout[i].hands[j].handedness = "Right"
                 /\ stdout[i].hands[j].score = 90

\* A line was written for two hands of which the detector classified the
\* first only, as a left hand: the second carries the defaults.
C11_Witness ==
    \E i \in DetectedLines :
        /\ Len(ResultOf(i).hand_landmarks) = 2
        /\ Len(ResultOf(i).handedness) = 1
        /\ stdout[i].hands[1].handedness = "Left"
        /\ stdout[i].hands[2].handedness = "Right"
        /\ stdout[i].hands[2].score = 90

\* A line was written for a hand the detector did not classify at all.
C11_WitnessUnclassified ==
    \E i \in DetectedLines :
        /\ Len(ResultOf(i).hand_landmarks) = 1
        /\ ResultOf(i).handedness = <<>>
        /\ stdout[i].hands[1].handedness = "Right"

\* --------------------------------------------------------------------- C12
\* C12: every hand of every line written is labelled "Left" or "Right" and
\* has a score from 0 to 1 (0 to 100 hundredths), whichever of its results
\* the detector returned and whether or not it classified the hand.
C12_HandednessAndScoreRange ==
    \A i \in 1..Len(stdout) :
        \A j \in 1..Len(stdout[i].hands) :
            /\ stdout[i].hands[j].handedness \in {"Left", "Right"}
            /\ stdout[i].hands[j].score >= 0
            /\ stdout[i].hands[j].score <= 100

\* Two lines were written: one with a hand of score 1, the detector's, and
\* one with a hand the detector did not classify.
C12_Witness ==
    /\ \E i \in DetectedLines : \E j \in 1..Len(stdout[i].hands) :
            /\ j <= Len(ResultOf(i).handedness)
            /\ stdout[i].hands[j].score = 100
    /\ \E i \in DetectedLines : \E j \in 1..Len(stdout[i].hands) :
            j > Len(ResultOf(i).handedness)

\* --------------------------------------------------------------------- C13
IsDecoded(e) == e.decoded

\* The frames that decoded to an image and for which the detector returned.
DecodedFrames == SelectSeq(processed, IsDecoded)

\* The detector call that raised, if one did, is the last one.
DetectorRaised == Exited /\ DetectError \in Range(stderr)

\* C13: the detector is called once for each fully read frame that decoded
\* to an image, on the image of that frame, and for no other frame: the
\* calls are those that returned, one per decoded frame and in the frames'
\* order, and at most one more, the call that raised, for the last frame
\* read; so there are never more calls than frames fully read.
C13_DetectorCalls ==
    /\ Len(detected) <= Len(frames)
    /\ Len(detected) = Len(DecodedFrames) + (IF DetectorRaised THEN 1 ELSE 0)
    /\ \A k \in 1..Len(DecodedFrames) :
            detected[k] = cvtColor(Image(DecodedFrames[k].frame))
    /\ DetectorRaised =>
            Last(detected) = cvtColor(Image(Last(frames)))

\* Two frames were answered: the first did not decode, the second went
\* through the detector, which was called once.
C13_Witness ==
    /\ Len(stdout) = 2
    /\ ~processed[1].decoded /\ processed[2].decoded
    /\ Len(detected) = 1

\* --------------------------------------------------------------------- C14
\* C14: the line written for a detected frame has one hand per hand of the
\* detector's result, in the detector's order; the points of each hand are
\* the detector's landmarks of that hand, as many and in the same order,
\* with x, y and z unchanged; and a result without hands gives {"hands": []}.
C14_RecordMirrorsResult ==
    \A i \in DetectedLines :
        /\ Len(stdout[i].hands) = Len(ResultOf(i).hand_landmarks)
        /\ \A j \in 1..Len(stdout[i].hands) :
            /\ Len(stdout[i].hands[j].points)
                    = Len(ResultOf(i).hand_landmarks[j])
            /\ \A k \in 1..Len(stdout[i].hands[j].points) :
                /\ stdout[i].hands[j].points[k].x
                        = ResultOf(i).hand_landmarks[j][k].x
                /\ stdout[i].hands[j].points[k].y
                        = ResultOf(i).hand_landmarks[j][k].y
                /\ stdout[i].hands[j].points[k].z
                        = ResultOf(i).hand_landmarks[j][k].z
        /\ ResultOf(i).hand_landmarks = <<>> => stdout[i] = EmptyHands

\* A line was written for two different hands, each with two different
\* landmarks.
C14_Witness ==
    \E i \in DetectedLines :
        /\ Len(stdout[i].hands) = 2
        /\ stdout[i].hands[1].points # stdout[i].hands[2].points
        /\ stdout[i].hands[1].points[1] # stdout[i].hands[1].points[2]

\* A frame decoded, the detector found no hand in it, and the line written
\* for it is {"hands": []}.
C14_WitnessNoHands ==
    \E i \in DetectedLines :
        ResultOf(i).hand_landmarks = <<>> /\ stdout[i] = EmptyHands

\* --------------------------------------------------------------------- C15
\* The number of bytes the read the worker is blocked in has asked for.
Requested == IF pc = "read_length" THEN U32(0, 4) ELSE length

\* C15: whatever chunks the producer writes while the worker reads, the
\* worker leaves a read for end-of-stream only when the pipe is closed;
\* while the pipe is open and fewer bytes than it asked for are there, it
\* stays in the read and consumes nothing; and when the read of a prefix or
\* of a payload completes, it has taken exactly the next 4 bytes, or the
\* next `length` bytes, of the stream.
C15_PartialReads ==
    /\ [][(Reading /\ pc' = "exited") => closed]_vars
    /\ [][(Reading /\ ~closed /\ Shorter(Unread, Requested)) =>
            (pc' = pc /\ pos' = pos /\ frames' = frames)]_vars
    /\ [][(pc = "read_length" /\ pc' = "read_payload") =>
            /\ length_bytes' = SubSeq(stdin, pos + 1, pos + 4)
            /\ Len(length_bytes') = 4
            /\ pos' = pos + 4]_vars
    /\ [][(pc = "read_payload" /\ pc' = "decode") =>
            /\ length.hi = 0
            /\ jpeg_data' = SubSeq(stdin, pos + 1, pos + length.lo)
            /\ Len(jpeg_data') = length.lo
            /\ pos' = pos + length.lo
            /\ frames' = Append(frames, jpeg_data')]_vars

\* The worker is blocked in the read of a two-byte payload of which one
\* byte has arrived, and the pipe is open.
C15_Witness ==
    /\ pc = "read_payload"
    /\ ~closed
    /\ length = U32(0, 2) /\ Unread = 1

\* The worker is blocked in the read of a prefix of which part has arrived.
C15_WitnessMidPrefix ==
    /\ pc = "read_length"
    /\ ~closed
    /\ Len(frames) = 1
    /\ Unread \in 1..3

\* --------------------------------------------------------------------- C16
\* The worker started on a closed stream of one length prefix, of bytes from
\* both halves of the byte range, and up to MaxPayloadLen bytes after it.
PrefixByte == {0, 1, 127, 128, 255}
PrefixStreams ==
    {p \o t : p \in [1..4 -> PrefixByte],
              t \in UNION {[1..n -> {0}] : n \in 0..MaxPayloadLen}}

InitPrefix ==
    /\ model_exists = TRUE
    /\ pc = "startup"
    /\ detector = NoDetector
    /\ stdin \in PrefixStreams
    /\ closed = TRUE
    /\ pos = 0
    /\ length_bytes = <<>>
    /\ length = U32(0, 0)
    /\ jpeg_data = <<>>
    /\ image_bgr = None
    /\ detection_result = [hand_landmarks |-> <<>>, handedness |-> <<>>]
    /\ stdout_buffer = <<>>
    /\ stdout = <<>>
    /\ stderr = <<>>
    /\ exit_status = Running
    /\ frames = <<>>
    /\ processed = <<>>
    /\ detected = <<>>

NextPrefix ==
    \/ CheckModel
    \/ CreateDetector
    \/ ReadLength
    \/ ReadPayload

SpecPrefix == InitPrefix /\ [][NextPrefix]_vars

\* The four big-endian bytes of a 32-bit unsigned integer.
pack32(n) ==
    <<n.hi \div 256, n.hi % 256, n.lo \div 256, n.lo % 256>>

\* The prefix was read in full.
PrefixRead ==
    Len(length_bytes) = 4 /\ pc \in {"read_payload", "decode", "exited"}

\* C16: the length taken from the prefix b0 b1 b2 b3 is the unsigned value
\* b0*2^24 + b1*2^16 + b2*2^8 + b3: it lies in 0..2^32-1 (each half in
\* 0..65535), its big-endian bytes are the prefix, and with the top bit set
\* it is at least 2^31, not negative; whatever the value, the payload is
\* asked for: the frame is complete with exactly that many bytes, and the
\* stream ends when fewer are left, all of which the read has taken.
C16_UnsignedLength ==
    PrefixRead =>
        /\ length.hi \in 0..65535 /\ length.lo \in 0..65535
        /\ pack32(length) = length_bytes
        /\ length_bytes[1] >= 128 => length.hi >= 32768
        /\ pc = "decode" =>
                /\ length = U32(0, Len(jpeg_data))
                /\ jpeg_data = SubSeq(stdin, 5, 4 + length.lo)
        /\ pc = "exited" =>
                /\ Shorter(Len(jpeg_data), length)
                /\ jpeg_data = SubSeq(stdin, 5, Len(stdin))
                /\ exit_status = ExitOk

\* A prefix with the top bit set was taken for a length of at least 2^31:
\* the payload was asked for and the bytes that were left were read.
C16_Witness ==
    /\ pc = "exited"
    /\ length_bytes = <<128, 0, 0, 1>>
    /\ length = U32(32768, 1)
    /\ Len(jpeg_data) = 2

\* --------------------------------------------------------------------- C17
\* The number of bytes of the frames fully read so far, prefixes included.
Consumed == Len(Encode(frames))

\* The loop is between two frames or processing the frame it has just read.
AtFrameBoundary ==
    \/ pc \in {"read_length", "decode", "detect", "format"}
    \/ Crashed

\* C17: once k frames P1..Pk have been fully read, the reader has consumed
\* the sum of 4 + len(Pi) bytes, which are the encoding of P1..Pk, and 4
\* more once the next prefix is read; the next prefix is the 4 bytes that
\* follow them; and no step of processing a frame (decoding, the fallback
\* record, detection, formatting and writing) moves the input position.
C17_NoBufferingDrift ==
    /\ [](AtFrameBoundary =>
            /\ pos = Consumed
            /\ SubSeq(stdin, 1, pos) = Encode(frames))
    /\ [](pc = "read_payload" => pos = Consumed + 4)
    /\ [][(pc = "read_length" /\ pc' = "read_payload") =>
            length_bytes' = SubSeq(stdin, Consumed + 1, Consumed + 4)]_vars
    /\ [][(pc \in {"decode", "detect", "format"}) => (pos' = pos)]_vars

\* Two frames were read and answered, the first with the fallback record
\* and the second with a detection, and the reader is at the end of the
\* second.
C17_Witness ==
    /\ pc = "read_length"
    /\ Len(frames) = 2
    /\ Len(stdout) = 2
    /\ ~processed[1].decoded
    /\ processed[2].decoded
    /\ pos = 10

\* A frame was answered with a record of no hands while bytes of the next
\* frame were already in the stream.
C17_WitnessEmptyDetection ==
    /\ pc = "read_length"
    /\ Len(stdout) = 1
    /\ processed[1].decoded
    /\ stdout[1] = EmptyHands
    /\ pos = 5
    /\ Unread >= 4

\* --------------------------------------------------------------------- C18
\* The worker started on a closed stream of up to MaxFrames frames, each of
\* one of two payloads, so that a payload comes again at another position.
MaxFrames == 3
IndependencePayloads == {<<1>>, <<2>>}
IndependenceStreams ==
    {Encode(ps) :
        ps \in UNION {[1..n -> IndependencePayloads] : n \in 0..MaxFrames}}

InitIndependence ==
    /\ model_exists = TRUE
    /\ pc = "startup"
    /\ detector = NoDetector
    /\ stdin \in IndependenceStreams
    /\ closed = TRUE
    /\ pos = 0
    /\ length_bytes = <<>>
    /\ length = U32(0, 0)
    /\ jpeg_data = <<>>
    /\ image_bgr = None
    /\ detection_result = [hand_landmarks |-> <<>>, handedness |-> <<>>]
    /\ stdout_buffer = <<>>
    /\ stdout = <<>>
    /\ stderr = <<>>
    /\ exit_status = Running
    /\ frames = <<>>
    /\ processed = <<>>
    /\ detected = <<>>

NextIndependence ==
    \/ CheckModel
    \/ CreateDetector
    \/ ReadLength
    \/ ReadPayload
    \/ Decode
    \/ Detect
    \/ FormatAndPrint

SpecIndependence == InitIndependence /\ [][NextIndependence]_vars

\* The decoder and the detector answered alike for the frames i and j.
SameOutcome(i, j) ==
    /\ processed[i].decoded = processed[j].decoded
    /\ processed[i].detection = processed[j].detection

\* The decoder and the detector behaved as functions of their argument in
\* this run: frames of the same payload got the same answers.
Deterministic ==
    \A i, j \in 1..Len(processed) :
        processed[i].frame = processed[j].frame => SameOutcome(i, j)

\* C18: the decoder is called on the payload of the frame just read and the
\* detector on the image of that payload, whatever came before; the record
\* written for a frame is a fixed function of that payload's outcome, the
\* same in every run and at every position; hence, when the decoder and the
\* detector are deterministic, a payload that comes at two positions, after
\* different frames, gets the same record at both.
C18_PerFrameIndependence ==
    /\ pc = "decode" => jpeg_data = Last(frames)
    /\ pc = "detect" => image_bgr = Image(Last(frames))
    /\ \A i \in 1..Len(stdout) :
            /\ processed[i].frame = frames[i]
            /\ stdout[i] = RecordOf(processed[i])
    /\ Deterministic =>
            \A i, j \in 1..Len(stdout) :
                frames[i] = frames[j] => stdout[i] = stdout[j]

\* A payload came first and third, with a frame of another payload that
\* failed to decode in between, and got the same record of hands twice.
C18_Witness ==
    /\ Len(stdout) = 3
    /\ Deterministic
    /\ frames[1] = frames[3]
    /\ frames[2] # frames[1]
    /\ ~processed[2].decoded
    /\ processed[1].decoded
    /\ stdout[1].hands # <<>>
    /\ stdout[3] = stdout[1]

\* A payload that fails to decode came first and third, with a frame in
\* which hands were detected in between.
C18_WitnessAfterHands ==
    /\ Len(stdout) = 3
    /\ Deterministic
    /\ frames[1] = frames[3]
    /\ ~processed[1].decoded
    /\ processed[2].decoded
    /\ stdout[2].hands # <<>>
    /\ stdout[3] = EmptyHands

====
